---------------------------- MODULE Spec2Model ----------------------------
(***************************************************************************)
(* DNS wire-format codec of the repository: the 12-byte header decoder and *)
(* response builder (parseDnsHeader, buildResponse), the question and      *)
(* answer serializers (DNSQuestion.Serialize, DNSAnswer.Serialize), the    *)
(* question decoder (parseDNSQuestion) and the reply builders              *)
(* (createDNSReply, handleDNSRequest).                                     *)
(*                                                                         *)
(* Bytes are numbers 0..255, buffers and strings are sequences of bytes    *)
(* (1-based here, 0-based in the Go source: Go's buf[i] is buf[i+1]).      *)
(***************************************************************************)
EXTENDS Integers, Sequences, FiniteSets, TLC

VARIABLES
    pc,        \* position of the run: which call has returned last
    data,      \* the byte buffer handed to the decoder (datagram payload)
    header,    \* the *Header value (models.go), Nil when there is none
    question,  \* the DNSQuestion value, Nil when there is none
    answer,    \* the DNSAnswer value, Nil when there is none
    decoded,   \* what the question decoder returned: a DNSQuestion, a list of
               \* them (parseDNSQuestions), Nil when there is none
    out,       \* the bytes produced by the last encoder call
    err,       \* "nil", the returned error, or "panic" (Go runtime panic)
    reads,     \* the set of 0-based buffer indices the last decoder call read
    steps,     \* iterations of the name-decoding loop in the last call
    program,   \* which main is running its receive loop, "none" outside a loop
    inbox,     \* datagrams on their way to the socket, in arrival order
    received,  \* datagrams ReadFromUDP has returned so far, in order
    goroutines,\* handleDNSRequest calls started with go and not yet run
    sent,      \* WriteToUDP calls made: destination, bytes, datagram answered
    dropped    \* datagrams (indices into received) whose decode error was logged

\* the state of a receive loop
serverVars == <<program, inbox, received, goroutines, sent, dropped>>

vars == <<pc, data, header, question, answer, decoded, out, err, reads, steps,
          program, inbox, received, goroutines, sent, dropped>>

\* Go's nil pointer / the absent value, a record so that it compares with records
Nil == [nil |-> TRUE]
Byte == 0..255

-----------------------------------------------------------------------------
(* Fixed-width integer helpers (encoding/binary and Go's bit operators).   *)

RECURSIVE BitAnd(_, _)
\* a & b on non-negative integers
BitAnd(a, b) ==
    IF a = 0 \/ b = 0 THEN 0
    ELSE (a % 2) * (b % 2) + 2 * BitAnd(a \div 2, b \div 2)

RECURSIVE BitOr(_, _)
\* a | b on non-negative integers
BitOr(a, b) ==
    IF a = 0 THEN b
    ELSE IF b = 0 THEN a
    ELSE (IF (a % 2) + (b % 2) > 0 THEN 1 ELSE 0) + 2 * BitOr(a \div 2, b \div 2)

RECURSIVE Pow2(_)
Pow2(n) == IF n = 0 THEN 1 ELSE 2 * Pow2(n - 1)

\* x >> n
Shr(x, n) == x \div Pow2(n)

\* x << n on a uint16
Shl16(x, n) == (x * Pow2(n)) % 65536

\* binary.BigEndian.Uint16(b[i:i+2]), i 0-based
Uint16At(b, i) == b[i + 1] * 256 + b[i + 2]

\* binary.BigEndian.PutUint16 / binary.Write of a uint16: two bytes, high first
PutUint16(v) == <<(v \div 256) % 256, v % 256>>

\* binary.BigEndian.PutUint32: four bytes, high first
PutUint32(v) ==
    <<(v \div 16777216) % 256, (v \div 65536) % 256, (v \div 256) % 256, v % 256>>

\* byte(n): conversion of an int to a byte keeps the low 8 bits
ToByte(n) == n % 256

-----------------------------------------------------------------------------
(* Header decoding and the response builder.                               *)

HeaderSize == 12

AA_Mask == 4
TC_Mask == 2
RD_Mask == 1
OPCODE_Shift == 3
OPCODE_Mask == 15

\* parseDnsHeader with OPCODE shifted by 4, the shift Z uses
parseDnsHeader_BadShift(buf) ==
    IF Len(buf) < HeaderSize
    THEN [header |-> Nil, err |-> "buffer too short", reads |-> {}]
    ELSE [header |->
            [ID      |-> Uint16At(buf, 0),
             QR      |-> BitAnd(buf[3], 128) # 0,
             OPCODE  |-> BitAnd(Shr(buf[3], 4), OPCODE_Mask),
             AA      |-> BitAnd(buf[3], AA_Mask) # 0,
             TC      |-> BitAnd(buf[3], TC_Mask) # 0,
             RD      |-> BitAnd(buf[3], RD_Mask) # 0,
             RA      |-> BitAnd(buf[4], 128) # 0,
             Z       |-> BitAnd(Shr(buf[4], 4), 7),
             RCODE   |-> BitAnd(buf[4], 15),
             QDCOUNT |-> Uint16At(buf, 4),
             ANCOUNT |-> Uint16At(buf, 6),
             NSCOUNT |-> Uint16At(buf, 8),
             ARCOUNT |-> Uint16At(buf, 10)],
          err |-> "nil",
          reads |-> 0..(HeaderSize - 1)]

\* parseDnsHeader with the length test off by one (<= 12 instead of < 12)
parseDnsHeader_OffByOne(buf) ==
    IF Len(buf) <= HeaderSize
    THEN [header |-> Nil, err |-> "buffer too short", reads |-> {}]
    ELSE [header |->
            [ID      |-> Uint16At(buf, 0),
             QR      |-> BitAnd(buf[3], 128) # 0,
             OPCODE  |-> BitAnd(Shr(buf[3], OPCODE_Shift), OPCODE_Mask),
             AA      |-> BitAnd(buf[3], AA_Mask) # 0,
             TC      |-> BitAnd(buf[3], TC_Mask) # 0,
             RD      |-> BitAnd(buf[3], RD_Mask) # 0,
             RA      |-> BitAnd(buf[4], 128) # 0,
             Z       |-> BitAnd(Shr(buf[4], 4), 7),
             RCODE   |-> BitAnd(buf[4], 15),
             QDCOUNT |-> Uint16At(buf, 4),
             ANCOUNT |-> Uint16At(buf, 6),
             NSCOUNT |-> Uint16At(buf, 8),
             ARCOUNT |-> Uint16At(buf, 10)],
          err |-> "nil",
          reads |-> 0..(HeaderSize - 1)]

\* parseDnsHeader(buf): (*Header, error), with the buffer indices it read
parseDnsHeader(buf) ==
    IF Len(buf) < HeaderSize
    THEN [header |-> Nil, err |-> "buffer too short", reads |-> {}]
    ELSE [header |->
            [ID      |-> Uint16At(buf, 0),
             QR      |-> BitAnd(buf[3], 128) # 0,
             OPCODE  |-> BitAnd(Shr(buf[3], OPCODE_Shift), OPCODE_Mask),
             AA      |-> BitAnd(buf[3], AA_Mask) # 0,
             TC      |-> BitAnd(buf[3], TC_Mask) # 0,
             RD      |-> BitAnd(buf[3], RD_Mask) # 0,
             RA      |-> BitAnd(buf[4], 128) # 0,
             Z       |-> BitAnd(Shr(buf[4], 4), 7),
             RCODE   |-> BitAnd(buf[4], 15),
             QDCOUNT |-> Uint16At(buf, 4),
             ANCOUNT |-> Uint16At(buf, 6),
             NSCOUNT |-> Uint16At(buf, 8),
             ARCOUNT |-> Uint16At(buf, 10)],
          err |-> "nil",
          reads |-> 0..(HeaderSize - 1)]

boolToUint16(b) == IF b THEN 1 ELSE 0

\* The flags word with RA shifted by 8, onto RD's bit
ResponseFlags_RAOnRD(h) ==
    LET f0 == BitOr(0, 32768)
        f1 == BitOr(f0, Shl16(BitAnd(h.OPCODE, OPCODE_Mask), 11))
        f2 == BitOr(f1, Shl16(boolToUint16(h.AA), 10))
        f3 == BitOr(f2, Shl16(boolToUint16(h.TC), 9))
        f4 == BitOr(f3, Shl16(boolToUint16(h.RD), 8))
        f5 == BitOr(f4, Shl16(boolToUint16(h.RA), 8))
        f6 == BitOr(f5, Shl16(BitAnd(h.Z, 7), 4))
    IN  BitOr(f6, BitAnd(h.RCODE, 15))

\* The 16-bit flags word buildResponse assembles
ResponseFlags(h) ==
    LET f0 == BitOr(0, 32768)
        f1 == BitOr(f0, Shl16(BitAnd(h.OPCODE, OPCODE_Mask), 11))
        f2 == BitOr(f1, Shl16(boolToUint16(h.AA), 10))
        f3 == BitOr(f2, Shl16(boolToUint16(h.TC), 9))
        f4 == BitOr(f3, Shl16(boolToUint16(h.RD), 8))
        f5 == BitOr(f4, Shl16(boolToUint16(h.RA), 7))
        f6 == BitOr(f5, Shl16(BitAnd(h.Z, 7), 4))
    IN  BitOr(f6, BitAnd(h.RCODE, 15))

\* buildResponse(header): the bytes, the error, and the header it leaves behind
\* (it writes header.QR through the pointer)
buildResponse(h) ==
    [bytes  |-> PutUint16(h.ID) \o PutUint16(ResponseFlags(h))
                \o PutUint16(h.QDCOUNT) \o PutUint16(h.ANCOUNT)
                \o PutUint16(h.NSCOUNT) \o PutUint16(h.ARCOUNT),
     err    |-> "nil",
     header |-> [h EXCEPT !.QR = TRUE]]

-----------------------------------------------------------------------------
(* Names, questions and answers: the serializers and the question decoder. *)
(* A Name is a Go string: a sequence of bytes, labels separated by '.'.    *)

Dot == 46

RECURSIVE SplitFrom(_)
\* the substring before the first '.', then the split of what follows it
SplitFrom(s) ==
    LET dots == { i \in 1..Len(s) : s[i] = Dot }
    IN  IF dots = {} THEN <<s>>
        ELSE LET i == CHOOSE d \in dots : \A e \in dots : d <= e
             IN  <<SubSeq(s, 1, i - 1)>> \o SplitFrom(SubSeq(s, i + 1, Len(s)))

\* strings.Split(s, "."): never empty, Split("") is one empty label
Split(s) == SplitFrom(s)

RECURSIVE Join(_)
\* strings.Join(labels, ".")
Join(labels) ==
    IF Len(labels) = 0 THEN <<>>
    ELSE IF Len(labels) = 1 THEN labels[1]
    ELSE labels[1] \o <<Dot>> \o Join(Tail(labels))

RECURSIVE AppendLabels(_)
\* the loop of Serialize: for each label, byte(len(label)) and the label's bytes
AppendLabels(labels) ==
    IF Len(labels) = 0 THEN <<>>
    ELSE <<ToByte(Len(labels[1]))>> \o labels[1] \o AppendLabels(Tail(labels))

\* The name part both Serialize methods emit: the labels, then the 0 byte
SerializeName(name) == AppendLabels(Split(name)) \o <<0>>

\* (q *DNSQuestion) Serialize() []byte
DNSQuestion_Serialize(q) ==
    SerializeName(q.Name) \o PutUint16(q.Type) \o PutUint16(q.Class)

\* (a *DNSAnswer) Serialize() []byte
DNSAnswer_Serialize(a) ==
    SerializeName(a.Name) \o PutUint16(a.Type) \o PutUint16(a.Class)
    \o PutUint32(a.TTL) \o PutUint16(a.RDLength) \o a.RData

\* d[k:] of a Go slice, k 0-based and k <= len(d)
SliceFrom(d, k) == SubSeq(d, k + 1, Len(d))

RECURSIVE DecodeLabels(_, _, _)
\* The for-loop of parseDNSQuestion on the remaining slice d, with the labels
\* collected so far and the iterations done. data[0] on an empty slice and
\* data[labelSize+1:] past the slice's length are runtime panics (the read
\* data[1:labelSize+1] before it either panics too, past the capacity, or
\* reads bytes beyond the slice's length).
DecodeLabels(d, name, n) ==
    IF Len(d) = 0
    THEN [status |-> "panic", name |-> name, rest |-> d, steps |-> n + 1]
    ELSE LET labelSize == d[1]
         IN  IF labelSize = 0
             THEN [status |-> "ok", name |-> name, rest |-> d, steps |-> n + 1]
             ELSE IF labelSize + 1 > Len(d)
             THEN [status |-> "panic", name |-> name, rest |-> d, steps |-> n + 1]
             ELSE DecodeLabels(SliceFrom(d, labelSize + 1),
                               Append(name, SubSeq(d, 2, labelSize + 1)),
                               n + 1)

\* parseDNSQuestion that does not consume the name's 0 byte before Type
parseDNSQuestion_KeepsTerminator(d) ==
    LET l == DecodeLabels(d, <<>>, 0)
    IN  IF l.status = "panic"
        THEN [question |-> Nil, err |-> "panic", steps |-> l.steps]
        ELSE LET rest == l.rest
             IN  IF Len(rest) < 4
                 THEN [question |-> [Name |-> Join(l.name), Type |-> 0, Class |-> 0],
                       err |-> "invalid question format", steps |-> l.steps]
                 ELSE [question |-> [Name  |-> Join(l.name),
                                     Type  |-> Uint16At(rest, 0),
                                     Class |-> Uint16At(rest, 2)],
                       err |-> "nil", steps |-> l.steps]

\* parseDNSQuestion(data): (DNSQuestion, error); err "panic" is a runtime panic
parseDNSQuestion(d) ==
    LET l == DecodeLabels(d, <<>>, 0)
    IN  IF l.status = "panic"
        THEN [question |-> Nil, err |-> "panic", steps |-> l.steps]
        ELSE LET rest == SliceFrom(l.rest, 1)
             IN  IF Len(rest) < 4
                 THEN [question |-> [Name |-> Join(l.name), Type |-> 0, Class |-> 0],
                       err |-> "invalid question format", steps |-> l.steps]
                 ELSE [question |-> [Name  |-> Join(l.name),
                                     Type  |-> Uint16At(rest, 0),
                                     Class |-> Uint16At(rest, 2)],
                       err |-> "nil", steps |-> l.steps]

-----------------------------------------------------------------------------
(* The reply builders.                                                     *)

packetID == 1234
queryResponse == 1
opcode == 0
authoritativeAnswer == 0
truncation == 0
recursionDesired == 0
recursionAvailable == 0
responseCode == 0
questionCount == 1
answerCount == 1
authorityCount == 0
additionalCount == 0

\* main.go's constants that differ: its reply carries no records
questionCount_v0 == 0
answerCount_v0 == 0

\* (h *DNSHeader) Serialize() []byte
DNSHeader_Serialize(h) ==
    PutUint16(h.ID) \o PutUint16(h.Flags) \o PutUint16(h.QDCOUNT)
    \o PutUint16(h.ANCOUNT) \o PutUint16(h.NSCOUNT) \o PutUint16(h.ARCOUNT)

\* flags := (queryResponse << 15) | (opcode << 11) | ... | responseCode, as uint16
ReplyFlags ==
    LET f0 == Shl16(queryResponse, 15)
        f1 == BitOr(f0, Shl16(opcode, 11))
        f2 == BitOr(f1, Shl16(authoritativeAnswer, 10))
        f3 == BitOr(f2, Shl16(truncation, 9))
        f4 == BitOr(f3, Shl16(recursionDesired, 8))
        f5 == BitOr(f4, Shl16(recursionAvailable, 7))
    IN  BitOr(f5, responseCode)

\* createDNSReply(question, answer) of the question-answering program
createDNSReply(q, a) ==
    DNSHeader_Serialize([ID |-> packetID, Flags |-> ReplyFlags,
                         QDCOUNT |-> questionCount, ANCOUNT |-> answerCount,
                         NSCOUNT |-> authorityCount, ARCOUNT |-> additionalCount])
    \o DNSQuestion_Serialize(q) \o DNSAnswer_Serialize(a)

\* createDNSReply() of main.go: the header alone
createDNSReply_v0 ==
    DNSHeader_Serialize([ID |-> packetID, Flags |-> ReplyFlags,
                         QDCOUNT |-> questionCount_v0, ANCOUNT |-> answerCount_v0,
                         NSCOUNT |-> authorityCount, ARCOUNT |-> additionalCount])

\* The sample answer handleDNSRequest constructs for a parsed question
SampleAnswer(q) ==
    [Name |-> q.Name, Type |-> 1, Class |-> 1, TTL |-> 60,
     RDLength |-> 4, RData |-> <<8, 8, 8, 8>>]

\* handleDNSRequest(conn, addr, data) of the question-answering program:
\* data[12:] panics on a datagram shorter than 12 bytes; a parse error is
\* logged and nothing is sent; otherwise the reply is written to addr.
handleDNSRequest(d) ==
    IF Len(d) < HeaderSize
    THEN [err |-> "panic", question |-> Nil, answer |-> Nil, reply |-> <<>>,
          sent |-> FALSE, steps |-> 0]
    ELSE LET r == parseDNSQuestion(SliceFrom(d, HeaderSize))
         IN  IF r.err # "nil"
             THEN [err |-> r.err, question |-> r.question, answer |-> Nil,
                   reply |-> <<>>, sent |-> FALSE, steps |-> r.steps]
             ELSE [err |-> "nil", question |-> r.question,
                   answer |-> SampleAnswer(r.question),
                   reply |-> createDNSReply(r.question, SampleAnswer(r.question)),
                   sent |-> TRUE, steps |-> r.steps]

\* handleDNSRequest of main.go: every datagram is answered with the fixed header
handleDNSRequest_v0(d) ==
    [err |-> "nil", reply |-> createDNSReply_v0, sent |-> TRUE]

-----------------------------------------------------------------------------
(* The multi-question decoder with name compression (DNSHeader.Parse and   *)
(* parseDNSQuestions, exercised by TestParseDNSQuestions): decodeName,     *)
(* decodeQuestion and decodeMessage of the design, offsets 0-based into    *)
(* the whole message.                                                      *)

\* DNSHeader.Parse: the six big-endian 16-bit fields Serialize writes
DNSHeader_Parse(b) ==
    [ID |-> Uint16At(b, 0), Flags |-> Uint16At(b, 2), QDCOUNT |-> Uint16At(b, 4),
     ANCOUNT |-> Uint16At(b, 6), NSCOUNT |-> Uint16At(b, 8), ARCOUNT |-> Uint16At(b, 10)]

NameError(e, off) == [err |-> e, labels |-> <<>>, next |-> off]

RECURSIVE decodeName_CursorFollowsPointer(_, _, _)
\* decodeName whose cursor, after a pointer, continues where the pointed-to
\* name ended instead of right after the 2-byte pointer
decodeName_CursorFollowsPointer(msg, off, visited) ==
    IF off >= Len(msg) THEN NameError("TruncatedInput", off)
    ELSE LET b == msg[off + 1]
         IN  IF b = 0 THEN [err |-> "nil", labels |-> <<>>, next |-> off + 1]
             ELSE IF b < 64
             THEN IF off + 1 + b > Len(msg) THEN NameError("TruncatedInput", off)
                  ELSE LET r == decodeName_CursorFollowsPointer(msg, off + 1 + b, visited)
                       IN  IF r.err # "nil" THEN r
                           ELSE [err |-> "nil",
                                 labels |-> <<SubSeq(msg, off + 2, off + 1 + b)>> \o r.labels,
                                 next |-> r.next]
             ELSE IF b >= 192
             THEN IF off + 2 > Len(msg) THEN NameError("TruncatedInput", off)
                  ELSE LET target == (b % 64) * 256 + msg[off + 2]
                       IN  IF target \in visited
                           THEN NameError("CompressionLoop", off)
                           ELSE decodeName_CursorFollowsPointer(msg, target,
                                                                visited \cup {target})
             ELSE NameError("InvalidLabelLength", off)

RECURSIVE decodeName(_, _, _)
\* decodeName(buffer, startOffset) with the pointer targets followed so far:
\* a chain that revisits an offset is a CompressionLoop
decodeName(msg, off, visited) ==
    IF off >= Len(msg) THEN NameError("TruncatedInput", off)
    ELSE LET b == msg[off + 1]
         IN  IF b = 0 THEN [err |-> "nil", labels |-> <<>>, next |-> off + 1]
             ELSE IF b < 64
             THEN IF off + 1 + b > Len(msg) THEN NameError("TruncatedInput", off)
                  ELSE LET r == decodeName(msg, off + 1 + b, visited)
                       IN  IF r.err # "nil" THEN r
                           ELSE [err |-> "nil",
                                 labels |-> <<SubSeq(msg, off + 2, off + 1 + b)>> \o r.labels,
                                 next |-> r.next]
             ELSE IF b >= 192
             THEN IF off + 2 > Len(msg) THEN NameError("TruncatedInput", off)
                  ELSE LET target == (b % 64) * 256 + msg[off + 2]
                       IN  IF target \in visited
                           THEN NameError("CompressionLoop", off)
                           ELSE LET r == decodeName(msg, target, visited \cup {target})
                                IN  IF r.err # "nil" THEN r
                                    ELSE [err |-> "nil", labels |-> r.labels,
                                          next |-> off + 2]
             ELSE NameError("InvalidLabelLength", off)

\* decodeQuestion(buffer, offset): the name, then Type and Class
decodeQuestion(msg, off) ==
    LET n == decodeName(msg, off, {})
    IN  IF n.err # "nil" THEN [err |-> n.err, question |-> Nil, next |-> off]
        ELSE IF n.next + 4 > Len(msg)
        THEN [err |-> "TruncatedInput", question |-> Nil, next |-> off]
        ELSE [err |-> "nil",
              question |-> [Name  |-> Join(n.labels),
                            Type  |-> Uint16At(msg, n.next),
                            Class |-> Uint16At(msg, n.next + 2)],
              next |-> n.next + 4]

RECURSIVE decodeQuestions(_, _, _)
\* count questions in sequence, each starting where the previous one ended
decodeQuestions(msg, off, count) ==
    IF count = 0 THEN [err |-> "nil", questions |-> <<>>]
    ELSE LET q == decodeQuestion(msg, off)
         IN  IF q.err # "nil" THEN [err |-> q.err, questions |-> <<>>]
             ELSE LET r == decodeQuestions(msg, q.next, count - 1)
                  IN  IF r.err # "nil" THEN r
                      ELSE [err |-> "nil", questions |-> <<q.question>> \o r.questions]

\* parseDNSQuestions(data, header): data is the message after its 12 header
\* bytes; pointer offsets count from the start of the whole message
parseDNSQuestions(d, h) ==
    decodeQuestions(DNSHeader_Serialize(h) \o d, HeaderSize, h.QDCOUNT)

-----------------------------------------------------------------------------
(* Inputs of the header program.                                           *)

\* How many bytes may follow the 12 header bytes in a drawn datagram
MaxTrailing == 1

\* ID bytes and the four count fields of the drawn headers
HeaderProfiles ==
    { [id |-> <<0, 0>>,     counts |-> <<1, 2, 3, 4, 5, 6, 7, 8>>],
      [id |-> <<4, 210>>,   counts |-> <<0, 1, 0, 1, 0, 0, 0, 0>>],
      [id |-> <<255, 255>>, counts |-> <<255, 255, 0, 0, 128, 0, 0, 255>>] }

\* Flag bytes drawn with every profile
SampleFlagBytes == {0, 1, 2, 133, 255}

MkHeaderBuf(p, b2, b3) == p.id \o <<b2, b3>> \o p.counts

\* Every pair of flag bytes with the test's profile, sampled pairs with the others
FullHeaderBufs ==
    { MkHeaderBuf([id |-> <<0, 0>>, counts |-> <<1, 2, 3, 4, 5, 6, 7, 8>>], b2, b3) :
        b2 \in Byte, b3 \in Byte }
    \cup { MkHeaderBuf(p, b2, b3) :
             p \in HeaderProfiles, b2 \in SampleFlagBytes, b3 \in SampleFlagBytes }

SampleHeaderBufs ==
    { MkHeaderBuf(p, b2, b3) : p \in HeaderProfiles, b2 \in {1, 133}, b3 \in {2, 255} }

RECURSIVE SeqsUpTo(_, _)
\* all sequences over S of length 0..n
SeqsUpTo(S, n) ==
    IF n = 0 THEN {<<>>}
    ELSE LET T == SeqsUpTo(S, n - 1)
         IN  T \cup { Append(t, s) : t \in { u \in T : Len(u) = n - 1 }, s \in S }

ShortHeaderBufs ==
    { SubSeq(b, 1, n) : b \in SampleHeaderBufs, n \in 0..(HeaderSize - 1) }
    \cup { <<1>> }

LongHeaderBufs ==
    { b \o t : b \in SampleHeaderBufs,
               t \in { u \in SeqsUpTo({0, 255}, MaxTrailing) : Len(u) > 0 } }

HeaderBufs == FullHeaderBufs \cup ShortHeaderBufs \cup LongHeaderBufs

-----------------------------------------------------------------------------
(* The header program: main's loop body, one datagram.                     *)

InitHeader ==
    /\ pc = "recv"
    /\ data \in HeaderBufs
    /\ header = Nil
    /\ question = Nil
    /\ answer = Nil
    /\ decoded = Nil
    /\ out = <<>>
    /\ err = "nil"
    /\ reads = {}
    /\ steps = 0
    /\ program = "none"
    /\ inbox = <<>>
    /\ received = <<>>
    /\ goroutines = {}
    /\ sent = {}
    /\ dropped = {}

\* header, err := parseDnsHeader(buf[:size])
ParseDnsHeader ==
    /\ pc = "recv"
    /\ LET r == parseDnsHeader(data)
       IN  /\ header' = r.header
           /\ err' = r.err
           /\ reads' = r.reads
    /\ pc' = "parsed"
    /\ UNCHANGED <<data, question, answer, decoded, out, steps>>
    /\ UNCHANGED serverVars

\* response, err := buildResponse(header)
BuildResponse ==
    /\ pc = "parsed"
    /\ err = "nil"
    /\ LET r == buildResponse(header)
       IN  /\ out' = r.bytes
           /\ err' = r.err
           /\ header' = r.header
    /\ pc' = "built"
    /\ reads' = {}
    /\ UNCHANGED <<data, question, answer, decoded, steps>>
    /\ UNCHANGED serverVars

NextHeader == ParseDnsHeader \/ BuildResponse

SpecHeader == InitHeader /\ [][NextHeader]_vars

-----------------------------------------------------------------------------
(* Inputs of the question and reply programs.                              *)

\* How many labels a drawn name may have
MaxLabels == 2

Rep(c, n) == [i \in 1..n |-> c]

\* Label lengths drawn: empty, short, the longest legal one (63) and beyond it
LabelLens == {0, 1, 2, 63, 64}

Labels == { Rep(c, n) : c \in {97, 98}, n \in LabelLens } \cup { Rep(97, 256) }

LabelSeqs(S, n) == UNION { [1..k -> S] : k \in 0..n }

Names == { Join(ls) : ls \in LabelSeqs(Labels, MaxLabels) }

Questions ==
    { [Name |-> n, Type |-> tc[1], Class |-> tc[2]] :
        n \in Names, tc \in { <<1, 1>>, <<258, 65280>> } }

ShortLabels == { <<97>>, <<98, 99>> }

SmallNames == { Join(ls) : ls \in LabelSeqs(ShortLabels, MaxLabels) \ { <<>> } }

Answers ==
    { [Name |-> n, Type |-> 1, Class |-> 1, TTL |-> t, RDLength |-> l, RData |-> d] :
        n \in SmallNames \cup { Rep(97, 64) },
        t \in { 60, 2147483647 },
        l \in { 0, 4, 5 },
        d \in { <<>>, <<8, 8, 8, 8>>, <<1, 2, 3, 4, 5>> } }

Prefixes(b) == { SubSeq(b, 1, k) : k \in 0..Len(b) }

\* Well-formed question sections, and every truncation of one
EncodedQuestions ==
    { DNSQuestion_Serialize([Name |-> n, Type |-> 1, Class |-> 1]) : n \in SmallNames }

TruncatedQuestions == UNION { Prefixes(b) : b \in EncodedQuestions }

\* Question sections (at message offset 12) whose name holds a compression
\* pointer to itself (192, 12), a pointer cycle (12 -> 14 -> 12), or a
\* reserved length byte (64)
PointerQuestions ==
    { <<192, 12>>,
      <<192, 12, 0, 1, 0, 1>>,
      <<3, 100, 101, 102, 192, 16, 0, 1, 0, 1>>,
      <<192, 14, 192, 12, 0, 1, 0, 1>>,
      <<192, 12>> \o Rep(97, 191) \o <<0, 0, 1, 0, 1>>,
      <<64>> \o Rep(97, 64) \o <<0, 0, 1, 0, 1>> }

\* A question for the root name: the 0 byte alone, then Type and Class
RootQuestion == <<0, 0, 1, 0, 1>>

QuestionBufs ==
    EncodedQuestions \cup TruncatedQuestions \cup PointerQuestions \cup { RootQuestion }

\* A query header: ID 0x1081, RD set, the given QDCOUNT
ReqHeader(qd) == <<16, 129, 1, 0>> \o PutUint16(qd) \o <<0, 0, 0, 0, 0, 0>>

RECURSIVE StartsFrom(_, _)
\* message offsets at which the labels of an encoded name start
StartsFrom(labels, off) ==
    IF Len(labels) = 0 THEN {}
    ELSE {off} \cup StartsFrom(Tail(labels), off + 1 + Len(labels[1]))

\* Two questions: a full name at offset 12, then a name ending in a pointer
\* into it
CompressedMessages ==
    { ReqHeader(2) \o DNSQuestion_Serialize([Name |-> n, Type |-> 1, Class |-> 1])
        \o AppendLabels(own) \o <<192, x>> \o <<0, 28, 0, 1>> :
        n \in SmallNames,
        own \in { <<>>, << <<100, 101, 102>> >>, << <<100>>, <<101, 102>> >> },
        x \in UNION { StartsFrom(Split(m), HeaderSize) : m \in SmallNames } }

\* The buffer of TestParseDNSQuestions
TestMessage ==
    <<16, 129, 1, 0, 0, 2, 0, 0, 0, 0, 0, 0,
      3, 97, 98, 99,
      17, 108, 111, 110, 103, 97, 115, 115, 100, 111, 109, 97, 105, 110, 110, 97, 109, 101,
      3, 99, 111, 109, 0, 0, 1, 0, 1,
      3, 100, 101, 102, 192, 16, 0, 1, 0, 1>>

Datagrams ==
    { ReqHeader(1) \o b : b \in QuestionBufs }
    \cup Prefixes(ReqHeader(1))
    \cup { ReqHeader(0) }
    \cup CompressedMessages
    \cup { TestMessage }

-----------------------------------------------------------------------------
(* The question and reply programs: one call per run.                      *)

Init ==
    /\ \/ pc = "question" /\ question \in Questions /\ answer = Nil /\ data = <<>>
       \/ pc = "answer" /\ question = Nil /\ answer \in Answers /\ data = <<>>
       \/ pc = "buffer" /\ question = Nil /\ answer = Nil /\ data \in QuestionBufs
       \/ pc = "recv" /\ question = Nil /\ answer = Nil /\ data \in Datagrams
    /\ header = Nil
    /\ decoded = Nil
    /\ out = <<>>
    /\ err = "nil"
    /\ reads = {}
    /\ steps = 0
    /\ program = "none"
    /\ inbox = <<>>
    /\ received = <<>>
    /\ goroutines = {}
    /\ sent = {}
    /\ dropped = {}

\* buf := question.Serialize()
SerializeQuestion ==
    /\ pc = "question"
    /\ out' = DNSQuestion_Serialize(question)
    /\ pc' = "serializedQ"
    /\ UNCHANGED <<data, header, question, answer, decoded, err, reads, steps>>
    /\ UNCHANGED serverVars

\* parseDNSQuestion on the bytes Serialize produced
ReparseQuestion ==
    /\ pc = "serializedQ"
    /\ LET r == parseDNSQuestion(out)
       IN  /\ decoded' = r.question
           /\ err' = r.err
           /\ steps' = r.steps
    /\ pc' = "reparsed"
    /\ UNCHANGED <<data, header, question, answer, out, reads>>
    /\ UNCHANGED serverVars

\* buf := answer.Serialize()
SerializeAnswer ==
    /\ pc = "answer"
    /\ out' = DNSAnswer_Serialize(answer)
    /\ pc' = "serializedA"
    /\ UNCHANGED <<data, header, question, answer, decoded, err, reads, steps>>
    /\ UNCHANGED serverVars

\* question, err := parseDNSQuestion(data)
ParseDNSQuestion ==
    /\ pc = "buffer"
    /\ LET r == parseDNSQuestion(data)
       IN  /\ decoded' = r.question
           /\ err' = r.err
           /\ steps' = r.steps
    /\ pc' = "parsedQ"
    /\ UNCHANGED <<data, header, question, answer, out, reads>>
    /\ UNCHANGED serverVars

\* go handleDNSRequest(udpConn, addr, buf[:n]) of the question-answering program
HandleDNSRequest ==
    /\ pc = "recv"
    /\ LET r == handleDNSRequest(data)
       IN  /\ decoded' = r.question
           /\ answer' = r.answer
           /\ out' = r.reply
           /\ err' = r.err
           /\ steps' = r.steps
    /\ pc' = "handled"
    /\ UNCHANGED <<data, header, question, reads>>
    /\ UNCHANGED serverVars

\* go handleDNSRequest(udpConn, addr, buf[:n]) of main.go
HandleDNSRequest_v0 ==
    /\ pc = "recv"
    /\ LET r == handleDNSRequest_v0(data)
       IN  /\ out' = r.reply
           /\ err' = r.err
    /\ pc' = "handled_v0"
    /\ UNCHANGED <<data, header, question, answer, decoded, reads, steps>>
    /\ UNCHANGED serverVars

\* header.Parse(data[:12]); questions, err := parseDNSQuestions(data[12:], header)
ParseDNSQuestions ==
    /\ pc = "recv"
    /\ Len(data) >= HeaderSize
    /\ LET r == parseDNSQuestions(SliceFrom(data, HeaderSize),
                                  DNSHeader_Parse(SubSeq(data, 1, HeaderSize)))
       IN  /\ decoded' = r.questions
           /\ err' = r.err
    /\ pc' = "questionsParsed"
    /\ UNCHANGED <<data, header, question, answer, out, reads, steps>>
    /\ UNCHANGED serverVars

Next ==
    \/ SerializeQuestion
    \/ ReparseQuestion
    \/ SerializeAnswer
    \/ ParseDNSQuestion
    \/ HandleDNSRequest
    \/ HandleDNSRequest_v0
    \/ ParseDNSQuestions
    \/ ParseDnsHeader
    \/ BuildResponse

Spec == Init /\ [][Next]_vars

-----------------------------------------------------------------------------
(* The receive loops: main of the header program (one datagram handled per *)
(* iteration, in the loop itself) and main of the question-answering       *)
(* program (one goroutine started per datagram).                           *)

\* How many datagrams arrive in a run
MaxDatagrams == 3

\* Source addresses of the datagrams
Sources == { "192.0.2.1:5301", "192.0.2.2:5302" }

\* Payloads that arrive: a well-formed query, a query cut inside Type/Class,
\* a header with no question after it, and two bytes
ServerPayloads ==
    { ReqHeader(1) \o DNSQuestion_Serialize([Name |-> <<97>>, Type |-> 1, Class |-> 1]),
      ReqHeader(1) \o <<1, 97, 0, 0, 1>>,
      ReqHeader(0),
      <<16, 129>> }

ServerDatagrams == [src : Sources, payload : ServerPayloads]

Inboxes == UNION { [1..k -> ServerDatagrams] : k \in 0..MaxDatagrams }

InitServer ==
    /\ pc = "serving"
    /\ program \in { "header", "question" }
    /\ inbox \in Inboxes
    /\ received = <<>>
    /\ goroutines = {}
    /\ sent = {}
    /\ dropped = {}
    /\ data = <<>>
    /\ header = Nil
    /\ question = Nil
    /\ answer = Nil
    /\ decoded = Nil
    /\ out = <<>>
    /\ err = "nil"
    /\ reads = {}
    /\ steps = 0

\* One iteration of the header program's loop: ReadFromUDP returns the next
\* datagram; a parseDnsHeader error is printed and the loop continues;
\* otherwise the response is built and written to source.
ServeHeader ==
    /\ pc = "serving"
    /\ program = "header"
    /\ inbox # <<>>
    /\ LET dg == Head(inbox)
           id == Len(received) + 1
           p  == parseDnsHeader(dg.payload)
       IN  /\ inbox' = Tail(inbox)
           /\ received' = Append(received, dg)
           /\ data' = dg.payload
           /\ reads' = p.reads
           /\ IF p.err # "nil"
              THEN /\ err' = p.err
                   /\ header' = p.header
                   /\ dropped' = dropped \cup {id}
                   /\ UNCHANGED <<out, sent>>
              ELSE LET b == buildResponse(p.header)
                   IN  /\ err' = b.err
                       /\ header' = b.header
                       /\ out' = b.bytes
                       /\ sent' = sent \cup { [id |-> id, to |-> dg.src, bytes |-> b.bytes] }
                       /\ UNCHANGED dropped
    /\ UNCHANGED <<pc, question, answer, decoded, steps, program, goroutines>>

\* ReadFromUDP returns an error: the header program breaks out of its loop
\* and main returns; the question-answering program logs it and continues.
ReadFromUDPError ==
    /\ pc = "serving"
    /\ pc' = IF program = "header" THEN "stopped" ELSE pc
    /\ UNCHANGED <<data, header, question, answer, decoded, out, err, reads, steps>>
    /\ UNCHANGED serverVars

\* One iteration of the question-answering program's loop: ReadFromUDP
\* returns the next datagram in a fresh buffer and a goroutine is started
\* on it.
AcceptDatagram ==
    /\ pc = "serving"
    /\ program = "question"
    /\ inbox # <<>>
    /\ LET dg == Head(inbox)
           id == Len(received) + 1
       IN  /\ inbox' = Tail(inbox)
           /\ received' = Append(received, dg)
           /\ goroutines' = goroutines \cup { [id |-> id, addr |-> dg.src, data |-> dg.payload] }
    /\ UNCHANGED <<pc, data, header, question, answer, decoded, out, err, reads, steps,
                   program, sent, dropped>>

\* A started handleDNSRequest goroutine runs, in any order with the loop and
\* the other goroutines.  A parse error is logged and nothing is written; a
\* parsed question is answered to addr; a runtime panic in the goroutine is
\* not recovered and ends the process, the loop and every goroutine with it
\* (goroutines keeps the one that panicked, the one the panic trace names).
RunHandler ==
    /\ pc = "serving"
    /\ program = "question"
    /\ \E g \in goroutines :
         LET r == handleDNSRequest(g.data)
         IN  /\ data' = g.data
             /\ err' = r.err
             /\ decoded' = r.question
             /\ answer' = r.answer
             /\ out' = r.reply
             /\ steps' = r.steps
             /\ IF r.err = "panic"
                THEN /\ pc' = "crashed"
                     /\ goroutines' = {g}
                     /\ UNCHANGED <<sent, dropped>>
                ELSE /\ pc' = pc
                     /\ goroutines' = goroutines \ {g}
                     /\ IF r.sent
                        THEN /\ sent' = sent \cup { [id |-> g.id, to |-> g.addr, bytes |-> r.reply] }
                             /\ UNCHANGED dropped
                        ELSE /\ dropped' = dropped \cup {g.id}
                             /\ UNCHANGED sent
    /\ UNCHANGED <<header, question, reads, program, inbox, received>>

NextServer ==
    \/ ServeHeader
    \/ ReadFromUDPError
    \/ AcceptDatagram
    \/ RunHandler

SpecServer == InitServer /\ [][NextServer]_vars

-----------------------------------------------------------------------------
(* Header claims, checked under SpecHeader.                                *)

\* C1: for every buffer of at least 12 bytes parseDnsHeader returns a Header
\* with ID = bytes 0-1 big-endian, QR = bit 7 of byte 2, OPCODE = bits 6-3 of
\* byte 2, AA = bit 2, TC = bit 1, RD = bit 0 of byte 2, RA = bit 7 of byte 3,
\* Z = bits 6-4 of byte 3, RCODE = bits 3-0 of byte 3, and the four counts =
\* the big-endian 16-bit values at offsets 4, 6, 8, 10; flag bytes 0x01, 0x02
\* give QR=false, OPCODE=0, AA=false, TC=false, RD=true, RA=false, Z=0, RCODE=2.
C1_HeaderFields ==
    (pc = "parsed" /\ Len(data) >= 12) =>
        /\ header # Nil
        /\ header.ID = data[1] * 256 + data[2]
        /\ header.QR = (data[3] \div 128 = 1)
        /\ header.OPCODE = (data[3] \div 8) % 16
        /\ header.AA = ((data[3] \div 4) % 2 = 1)
        /\ header.TC = ((data[3] \div 2) % 2 = 1)
        /\ header.RD = (data[3] % 2 = 1)
        /\ header.RA = (data[4] \div 128 = 1)
        /\ header.Z = (data[4] \div 16) % 8
        /\ header.RCODE = data[4] % 16
        /\ header.QDCOUNT = data[5] * 256 + data[6]
        /\ header.ANCOUNT = data[7] * 256 + data[8]
        /\ header.NSCOUNT = data[9] * 256 + data[10]
        /\ header.ARCOUNT = data[11] * 256 + data[12]
        /\ (data[3] = 1 /\ data[4] = 2) =>
               /\ ~header.QR /\ header.OPCODE = 0 /\ ~header.AA /\ ~header.TC
               /\ header.RD /\ ~header.RA /\ header.Z = 0 /\ header.RCODE = 2

\* The test's valid case has been decoded
C1_Witness ==
    /\ pc = "parsed"
    /\ data = <<0, 0, 1, 2, 1, 2, 3, 4, 5, 6, 7, 8>>
    /\ header # Nil
    /\ header.RD /\ header.RCODE = 2 /\ header.QDCOUNT = 258 /\ header.ARCOUNT = 1800

\* C2: for every buffer shorter than 12 bytes (the empty one and the single
\* byte 0x01 included) parseDnsHeader returns an error and no Header and reads
\* no byte of the buffer; for every buffer of 12 bytes or more it returns no
\* error.
C2_ShortBuffer ==
    pc = "parsed" =>
        IF Len(data) < 12
        THEN err # "nil" /\ header = Nil /\ reads = {}
        ELSE err = "nil"

\* The test's short buffer has been rejected
C2_Witness == pc = "parsed" /\ data = <<1>> /\ err # "nil" /\ header = Nil

\* C3 as stated: decoding the bytes buildResponse produces for a header h
\* yields h again in every field.
C3_RoundTripExact ==
    [][pc' = "built" => parseDnsHeader(out').header = header]_vars

\* C3 as amended: decoding the bytes buildResponse produces for a header h
\* succeeds and yields h in every field except QR, which is true whatever
\* h.QR was.
C3_RoundTripUpToQR ==
    [][pc' = "built" =>
          /\ parseDnsHeader(out').err = "nil"
          /\ parseDnsHeader(out').header = [header EXCEPT !.QR = TRUE]]_vars

\* A response has been built for a query header (QR clear) with OPCODE 15, Z 7
C3_Witness ==
    /\ pc = "built"
    /\ data[3] < 128
    /\ header.QR /\ header.OPCODE = 15 /\ header.Z = 7 /\ header.RCODE = 15
    /\ Len(out) = 12

-----------------------------------------------------------------------------
(* Question, answer and reply claims, checked under Spec.                  *)

RECURSIVE PlainLabels(_, _)
\* The ordinary labels (length byte 1..63) read from offset off, and the
\* offset of the first byte that is not one
PlainLabels(msg, off) ==
    IF off < Len(msg) /\ msg[off + 1] \in 1..63 /\ off + 1 + msg[off + 1] <= Len(msg)
    THEN LET r == PlainLabels(msg, off + 1 + msg[off + 1])
         IN  [labels |-> <<SubSeq(msg, off + 2, off + 1 + msg[off + 1])>> \o r.labels,
              at |-> r.at]
    ELSE [labels |-> <<>>, at |-> off]

\* "abc.longassdomainname.com" and "def.longassdomainname.com"
LongDomainCom ==
    <<46, 108, 111, 110, 103, 97, 115, 115, 100, 111, 109, 97, 105, 110, 110, 97,
      109, 101, 46, 99, 111, 109>>

AbcName == <<97, 98, 99>> \o LongDomainCom

DefName == <<100, 101, 102>> \o LongDomainCom

RECURSIVE PointerChainLoops(_, _, _)
\* The name at offset off is a chain of compression pointers that comes back
\* to an offset it has been at
PointerChainLoops(msg, off, seen) ==
    /\ off + 2 <= Len(msg)
    /\ msg[off + 1] >= 192
    /\ LET target == (msg[off + 1] % 64) * 256 + msg[off + 2]
       IN  \/ target \in seen \cup {off}
           \/ PointerChainLoops(msg, target, seen \cup {off})

\* C5: decoding a name whose compression pointer points to itself, or whose
\* pointers form a cycle, fails with a returned (CompressionLoop) error; and
\* for every input the decode loop ends after a number of steps bounded by
\* the buffer length.
C5_LoopGuard ==
    pc = "handled" =>
        /\ PointerChainLoops(data, HeaderSize, {}) => err \notin {"nil", "panic"}
        /\ steps <= Len(data) + 1

\* A dotted name all of whose labels have 1..63 bytes: no leading, trailing or
\* doubled '.', and a '.' in every window of 64 bytes
ValidName(n) ==
    /\ Len(n) >= 1
    /\ n[1] # Dot /\ n[Len(n)] # Dot
    /\ \A i \in 1..(Len(n) - 1) : ~(n[i] = Dot /\ n[i + 1] = Dot)
    /\ \A i \in 1..(Len(n) - 63) : \E j \in i..(i + 63) : n[j] = Dot

\* C6: for every name made of labels of 1..63 bytes with total encoded length
\* at most 255, parseDNSQuestion of the bytes DNSQuestion.Serialize produces
\* returns no error and the same dotted name, Type and Class.
C6_NameRoundTrip ==
    (pc = "reparsed" /\ ValidName(question.Name) /\ Len(question.Name) + 2 <= 255) =>
        /\ err = "nil"
        /\ decoded = question

\* A name of two 63-byte labels has gone through Serialize and parseDNSQuestion
C6_Witness ==
    /\ pc = "reparsed"
    /\ ValidName(question.Name)
    /\ Len(question.Name) = 127
    /\ question.Type = 258
    /\ decoded = question

RECURSIVE SkipName(_, _)
\* The offset after the name at offset off as the encoder lays names out (a
\* length byte and that many bytes per label, then the 0 byte; it emits no
\* pointers), -1 when there is no whole name
SkipName(msg, off) ==
    IF off >= Len(msg) THEN -1
    ELSE LET b == msg[off + 1]
         IN  IF b = 0 THEN off + 1
             ELSE IF off + 1 + b > Len(msg) THEN -1
             ELSE SkipName(msg, off + 1 + b)

RECURSIVE SkipRecords(_, _, _, _)
\* The offset after nq question records and na answer records from off, -1
\* when the bytes do not hold them
SkipRecords(msg, off, nq, na) ==
    IF nq = 0 /\ na = 0 THEN off
    ELSE LET n == SkipName(msg, off)
         IN  IF n < 0 THEN -1
             ELSE IF nq > 0
             THEN (IF n + 4 > Len(msg) THEN -1 ELSE SkipRecords(msg, n + 4, nq - 1, na))
             ELSE IF n + 10 > Len(msg) \/ n + 10 + Uint16At(msg, n + 8) > Len(msg)
             THEN -1
             ELSE SkipRecords(msg, n + 10 + Uint16At(msg, n + 8), nq, na - 1)

\* The message is its header, then exactly QDCOUNT questions and ANCOUNT answers
CountsMatchRecords(msg) ==
    /\ Len(msg) >= HeaderSize
    /\ SkipRecords(msg, HeaderSize, Uint16At(msg, 4), Uint16At(msg, 6)) = Len(msg)

\* C7: in every reply the program builds (createDNSReply, buildResponse), for
\* every request, the QDCOUNT and ANCOUNT of the 12-byte header equal the
\* number of question and answer records that follow it in the emitted bytes.
C7_CountsMatch ==
    (pc \in {"handled", "handled_v0", "built"} /\ out # <<>>) => CountsMatchRecords(out)

\* C8: in the bytes DNSAnswer.Serialize produces, the 16-bit RDLENGTH field
\* equals the number of RDATA bytes that follow it, for every Answer value.
C8_RDLengthComputed ==
    pc = "serializedA" =>
        LET off == Len(SerializeName(answer.Name)) + 8
        IN  /\ Len(out) >= off + 2
            /\ Uint16At(out, off) = Len(out) - (off + 2)
            /\ Uint16At(out, off) = Len(answer.RData)

\* Some label of the dotted name has more than 63 bytes
HasLongLabel(n) ==
    \E i \in 1..(Len(n) - 63) : \A j \in i..(i + 63) : n[j] # Dot

RECURSIVE LengthBytesOk(_, _, _)
\* Each label's length byte in the emitted name is 0..63 and the label's length
LengthBytesOk(bytes, off, labels) ==
    \/ Len(labels) = 0
    \/ /\ off < Len(bytes)
       /\ bytes[off + 1] <= 63
       /\ bytes[off + 1] = Len(labels[1])
       /\ LengthBytesOk(bytes, off + 1 + Len(labels[1]), Tail(labels))

\* C9: encoding a name fails (LabelTooLong) whenever a label is longer than 63
\* bytes, and then no bytes are emitted; so every length byte the encoder
\* emits is 0..63 and is the byte length of the label after it.
C9_LabelTooLong ==
    /\ pc = "serializedQ" =>
           /\ HasLongLabel(question.Name) => (err # "nil" /\ out = <<>>)
           /\ out # <<>> => LengthBytesOk(out, 0, Split(question.Name))
    /\ pc = "serializedA" =>
           /\ HasLongLabel(answer.Name) => (err # "nil" /\ out = <<>>)
           /\ out # <<>> => LengthBytesOk(out, 0, Split(answer.Name))

\* C10: for every buffer, parseDNSQuestion returns a question or an error
\* value and never reads out of range (a runtime panic): a buffer that ends
\* before the name's zero byte, a label length past the end of the buffer, or
\* fewer than 4 bytes after the name give a returned error; the same for
\* handleDNSRequest on a datagram shorter than 12 bytes.
C10_NoOutOfRange ==
    pc \in {"parsedQ", "handled"} =>
        /\ err # "panic"
        /\ err = "nil" => decoded # Nil
        /\ (pc = "handled" /\ Len(data) < HeaderSize) => err \notin {"nil", "panic"}

-----------------------------------------------------------------------------
(* The receive loops, checked under SpecServer.                            *)

\* The decode of a payload succeeded, in the program that is running
DecodeSucceeds(d) ==
    IF program = "header" THEN parseDnsHeader(d).err = "nil"
    ELSE handleDNSRequest(d).err = "nil"

\* Every reply written answers a received datagram whose decode succeeded,
\* and goes to the address that datagram came from
RepliesOnlyForDecoded ==
    \A m \in sent :
        /\ m.id \in 1..Len(received)
        /\ DecodeSucceeds(received[m.id].payload)
        /\ m.to = received[m.id].src

\* A datagram dropped for a decode error has no reply
DroppedUnanswered ==
    \A i \in dropped :
        /\ ~DecodeSucceeds(received[i].payload)
        /\ \A m \in sent : m.id # i

\* Handling a datagram that arrived after a dropped one has not ended the
\* process
ServerGoesOn ==
    pc = "crashed" =>
        \A g \in goroutines : \A i \in dropped : g.id < i

\* The loop is waiting in ReadFromUDP with nothing left to arrive or to run
Idle == pc = "serving" /\ inbox = <<>> /\ goroutines = {}

\* Once idle, every received datagram has been answered or dropped
AllSettled ==
    Idle =>
        \A i \in 1..Len(received) :
            IF DecodeSucceeds(received[i].payload)
            THEN \E m \in sent : m.id = i
            ELSE i \in dropped

\* C11: in every run of a receive loop, a reply is written only for a
\* received datagram whose decode succeeded and goes to that datagram's
\* source; a datagram whose decode failed is dropped without a reply; and
\* after a drop the server stays in its loop: no datagram that arrived later
\* has ended the process and, once there is nothing left to handle, every
\* datagram that arrived has been answered or dropped.
C11_ServerLoop ==
    pc \in { "serving", "stopped", "crashed" } =>
        /\ RepliesOnlyForDecoded
        /\ DroppedUnanswered
        /\ ServerGoesOn
        /\ AllSettled

\* C11 without the panics: what the loops do keep
C11_SafetyPart ==
    pc \in { "serving", "stopped", "crashed" } =>
        /\ RepliesOnlyForDecoded
        /\ DroppedUnanswered
        /\ AllSettled

\* the header program alone
C11_HeaderProgram ==
    program = "header" => C11_ServerLoop

=============================================================================
